---- MODULE Spec2Model ----
(***************************************************************************)
(* Model of the Scilla stake commands (src/src/commands/stake.rs) and of   *)
(* the helpers they use (src/src/misc/helpers.rs).                         *)
(*                                                                         *)
(* One client process runs one command (main.rs runs the prompt loop       *)
(* once).  Every `.await` on the RPC client is a step of the client, so    *)
(* the remote node may change between two steps.                           *)
(*                                                                         *)
(* Scaling.  TLC integers are 32 bits wide, so u64 and f64 are modelled at *)
(* a reduced width: u64 is an unsigned integer of WordBits bits, f64 is a  *)
(* binary floating-point number with MantBits significand bits, rounded to *)
(* nearest, ties to even, with NaN and the two infinities.  The number of  *)
(* lamports per SOL is scaled down with them.                              *)
(***************************************************************************)
EXTENDS Integers, Sequences, FiniteSets, TLC

\* ---------------------------------------------------------------- bounds
WordBits == 5           \* width of the model's u64
MantBits == 3           \* significand bits of the model's f64
FracBits == 2           \* the smallest f64 step is 2^-FracBits
MaxShift == 8           \* the largest f64 exponent above the smallest step
MaxEpoch == 3           \* epochs the node goes through
MaxSigs == 21           \* longest signature list the node returns

\* LAMPORTS_PER_SOL of crate::constants (10^9), scaled to the model's u64
LAMPORTS_PER_SOL == 10

RECURSIVE Pow2(_)
Pow2(n) == IF n = 0 THEN 1 ELSE 2 * Pow2(n - 1)

U64_MAX == Pow2(WordBits) - 1

\* ACTIVE_STAKE_EPOCH_BOUND of crate::constants: u64::MAX
ACTIVE_STAKE_EPOCH_BOUND == U64_MAX

\* ------------------------------------------------------------------- f64
\* A finite f64 is k * 2^-FracBits; k is a significand of MantBits bits
\* shifted left by at most MaxShift.
RepK == {m * Pow2(j) : m \in 0..(Pow2(MantBits) - 1), j \in 0..MaxShift}
MaxK == (Pow2(MantBits) - 1) * Pow2(MaxShift)

Fin(k) == [c |-> "fin", k |-> k]
NaN == [c |-> "nan", k |-> 0]
PosInf == [c |-> "inf", k |-> 1]
NegInf == [c |-> "inf", k |-> -1]

F64 == {Fin(k) : k \in RepK} \cup {Fin(-k) : k \in RepK} \cup {NaN, PosInf, NegInf}

Abs(x) == IF x < 0 THEN -x ELSE x
Sgn(x) == IF x < 0 THEN -1 ELSE IF x = 0 THEN 0 ELSE 1

\* the spacing of the representable values around k
Ulp(k) == IF k < Pow2(MantBits) THEN 1
          ELSE Pow2(CHOOSE j \in 1..MaxShift :
                       /\ Pow2(j) * Pow2(MantBits - 1) <= k
                       /\ k < Pow2(j) * Pow2(MantBits))
EvenK(k) == (k \div Ulp(k)) % 2 = 0

SetMax(S) == CHOOSE x \in S : \A y \in S : y <= x
SetMin(S) == CHOOSE x \in S : \A y \in S : x <= y

\* n/d (n >= 0, d > 0), in steps of 2^-FracBits, rounded to nearest, ties to
\* even; -1 when it rounds to infinity
RoundK(n, d) ==
    LET lo == SetMax({k \in RepK : k * d <= n})
        above == {k \in RepK : k * d >= n}
    IN  IF above = {}
        THEN IF 2 * n >= (2 * MaxK + Pow2(MaxShift)) * d THEN -1 ELSE MaxK
        ELSE LET hi == SetMin(above)
                 dl == n - lo * d
                 dh == hi * d - n
             IN  IF dl < dh THEN lo
                 ELSE IF dh < dl THEN hi
                 ELSE IF EvenK(lo) THEN lo ELSE hi

Rounded(sign, n, d) ==
    LET k == RoundK(n, d)
    IN  IF k = -1 THEN (IF sign < 0 THEN NegInf ELSE PosInf) ELSE Fin(sign * k)

\* a * b
FMul(a, b) ==
    IF a.c = "nan" \/ b.c = "nan" THEN NaN
    ELSE IF a.c = "inf" \/ b.c = "inf"
         THEN IF a.k = 0 \/ b.k = 0 THEN NaN
              ELSE IF Sgn(a.k) * Sgn(b.k) < 0 THEN NegInf ELSE PosInf
    ELSE Rounded(IF Sgn(a.k) * Sgn(b.k) < 0 THEN -1 ELSE 1,
                 Abs(a.k) * Abs(b.k), Pow2(FracBits))

\* a / b
FDiv(a, b) ==
    IF a.c = "nan" \/ b.c = "nan" THEN NaN
    ELSE IF a.c = "inf"
         THEN IF b.c = "inf" THEN NaN
              ELSE IF Sgn(a.k) * (IF b.k < 0 THEN -1 ELSE 1) < 0 THEN NegInf ELSE PosInf
    ELSE IF b.c = "inf" THEN Fin(0)
    ELSE IF b.k = 0
         THEN IF a.k = 0 THEN NaN ELSE IF a.k < 0 THEN NegInf ELSE PosInf
    ELSE Rounded(IF Sgn(a.k) * Sgn(b.k) < 0 THEN -1 ELSE 1,
                 Abs(a.k) * Pow2(FracBits), Abs(b.k))

\* a < b and a <= b; false when either is NaN
FLt(a, b) ==
    /\ a.c # "nan" /\ b.c # "nan"
    /\ IF a.c = "inf" THEN a.k < 0 /\ ~(b.c = "inf" /\ b.k < 0)
       ELSE IF b.c = "inf" THEN b.k > 0
       ELSE a.k < b.k
FLe(a, b) == a.c # "nan" /\ b.c # "nan" /\ (a = b \/ FLt(a, b))

is_finite(a) == a.c = "fin"

\* `n as f64` for a u64 n
U64AsF64(n) == Rounded(1, n * Pow2(FracBits), 1)

\* `x as u64` for an f64 x: NaN is 0, the rest is truncated and saturates
F64AsU64(x) ==
    IF x.c = "nan" THEN 0
    ELSE IF x.c = "inf" THEN (IF x.k < 0 THEN 0 ELSE U64_MAX)
    ELSE IF x.k <= 0 THEN 0
    ELSE IF x.k \div Pow2(FracBits) > U64_MAX THEN U64_MAX
    ELSE x.k \div Pow2(FracBits)

\* ------------------------------------------------------------ helpers.rs
sol_to_lamports(sol) == F64AsU64(FMul(sol, U64AsF64(LAMPORTS_PER_SOL)))

lamports_to_sol(lamports) == FDiv(U64AsF64(lamports), U64AsF64(LAMPORTS_PER_SOL))

\* SolAmount::from_str after the text is parsed to an f64: "ok" or the error
SolAmountCheck(sol) ==
    IF FLe(sol, Fin(0)) THEN "NotPositive"
    ELSE IF ~is_finite(sol) THEN "NotFinite"
    ELSE IF FLt(U64AsF64(U64_MAX), FMul(sol, U64AsF64(LAMPORTS_PER_SOL)))
         THEN "TooLarge"
    ELSE "ok"

\* ------------------------------------------------------------ the values
Pubkeys == {"k1", "k2"}
StakeAddress == "stake1"
Recipient == "r1"
Balances == {0, 8, U64_MAX}
DeactivationEpochs == {0, 1, ACTIVE_STAKE_EPOCH_BOUND}
\* the amounts typed at the prompt, in steps of 2^-FracBits
AmountKs == {0, 1, 3, 4, 12, 14, 16}
TAKE_LIMIT == 20        \* signatures.iter().take(20)

\* StakeStateV2 as decoded from the account data; "Undecodable" is a payload
\* bincode cannot decode, "None" is no payload read yet
StateOf(tag, staker, withdrawer, de) ==
    [tag |-> tag, staker |-> staker, withdrawer |-> withdrawer,
     deactivation_epoch |-> de]
NoState == StateOf("None", "none", "none", 0)
StakeStates ==
    {StateOf(t, "none", "none", 0) : t \in {"Uninitialized", "RewardsPool", "Undecodable"}}
    \cup {StateOf("Initialized", s, w, 0) : s \in Pubkeys, w \in Pubkeys}
    \cup {StateOf("Stake", s, w, de) : s \in Pubkeys, w \in Pubkeys,
                                       de \in DeactivationEpochs}

\* an account as get_account returns it
AccountOf(owner, lamports, data) ==
    [exists |-> TRUE, owner |-> owner, lamports |-> lamports, data |-> data]
NoAccount == [exists |-> FALSE, owner |-> "none", lamports |-> 0, data |-> NoState]
Accounts ==
    {NoAccount}
    \cup {AccountOf("system", l, StateOf("Undecodable", "none", "none", 0)) : l \in Balances}
    \cup {AccountOf("system", l, StateOf("Uninitialized", "none", "none", 0)) : l \in Balances}
    \cup {AccountOf("stake", l, d) : l \in Balances, d \in StakeStates}

\* the amounts SolAmount::from_str accepts
SolAmounts == {a \in {Fin(k) : k \in AmountKs \cap RepK} : SolAmountCheck(a) = "ok"}

\* the outcome of a command
Outcome(status, reason) ==
    [status |-> status, reason |-> reason, epoch |-> 0, current |-> 0,
     remaining |-> 0, authority |-> "none", have |-> Fin(0), want |-> Fin(0),
     signature |-> <<>>]
NoResult == Outcome("none", "")
Err(reason) == Outcome("err", reason)
Approved == Outcome("approved", "")

NoTx == [instructions |-> <<>>, payer |-> "none", signers |-> {}, blockhash |-> "none"]

VARIABLES
    ctx_pubkey,     \* ScillaContext.pubkey, the key of ScillaContext.keypair
    chain,          \* the node: the account at StakeAddress
    node_epoch,     \* the node: its current epoch
    pc,             \* where the client is
    cmd,            \* the command typed at the prompt
    account,        \* the account as the client read it
    stake_state,    \* the StakeStateV2 the client decoded
    epoch_read,     \* epoch_info.epoch as the client read it, -1 before
    instructions,   \* the instructions handed to build_and_send_tx
    tx,             \* the signed transaction
    submitted,      \* the transactions that reached the node
    rpc_log,        \* the RPC calls the client made, in order
    shown,          \* the rows of the history table
    result,         \* the outcome of the command
    signatures,     \* the signature list the client received
    conv            \* an amount typed and what the conversions made of it

\* the state of a command
cmdvars == <<ctx_pubkey, chain, node_epoch, pc, cmd, account, stake_state, epoch_read,
             instructions, tx, submitted, rpc_log, shown, result, signatures>>

vars == <<cmdvars, conv>>

\* no amount is being converted
NoConv == [stage |-> "none", text |-> "empty", sol |-> Fin(0), verdict |-> "",
           lamports |-> 0, back |-> Fin(0)]

NoCmd == [kind |-> "none", stake_pubkey |-> "none", recipient |-> "none", amount |-> Fin(0)]

Init ==
    /\ ctx_pubkey \in Pubkeys
    /\ chain \in Accounts
    /\ node_epoch \in 0..(MaxEpoch - 1)
    /\ pc = "prompt"
    /\ cmd = NoCmd
    /\ account = NoAccount
    /\ stake_state = NoState
    /\ epoch_read = -1
    /\ instructions = <<>>
    /\ tx = NoTx
    /\ submitted = <<>>
    /\ rpc_log = <<>>
    /\ shown = <<>>
    /\ result = NoResult
    /\ signatures = <<>>
    /\ conv = NoConv

\* ------------------------------------------------ stake.rs: the prompts
PromptDeactivate ==
    /\ pc = "prompt"
    /\ cmd' = [kind |-> "Deactivate", stake_pubkey |-> StakeAddress,
               recipient |-> "none", amount |-> Fin(0)]
    /\ pc' = "deactivate_get_account"
    /\ UNCHANGED <<ctx_pubkey, chain, node_epoch, account, stake_state, epoch_read,
                   instructions, tx, submitted, rpc_log, shown, signatures, conv, result>>

PromptWithdraw ==
    /\ pc = "prompt"
    /\ \E amount \in SolAmounts :
         cmd' = [kind |-> "Withdraw", stake_pubkey |-> StakeAddress,
                 recipient |-> Recipient, amount |-> amount]
    /\ pc' = "withdraw_get_account"
    /\ UNCHANGED <<ctx_pubkey, chain, node_epoch, account, stake_state, epoch_read,
                   instructions, tx, submitted, rpc_log, shown, signatures, conv, result>>

PromptHistory ==
    /\ pc = "prompt"
    /\ cmd' = [kind |-> "History", stake_pubkey |-> StakeAddress,
               recipient |-> "none", amount |-> Fin(0)]
    /\ pc' = "history_get_account"
    /\ UNCHANGED <<ctx_pubkey, chain, node_epoch, account, stake_state, epoch_read,
                   instructions, tx, submitted, rpc_log, shown, signatures, conv, result>>

\* ------------------------------------------- stake.rs: reading the account
\* one call of the RPC client and what came back
Rpc(call, reply) == [call |-> call, reply |-> reply]

\* what the node answers to get_account
GetAccountReply(transport_ok) ==
    IF ~transport_ok THEN "transport_error"
    ELSE IF ~chain.exists THEN "not_found"
    ELSE "ok"

\* ctx.rpc().get_account(..).await? : "ok", or the error it returns
GetAccountError(transport_ok) ==
    IF GetAccountReply(transport_ok) = "transport_error" THEN "NetworkError"
    ELSE IF GetAccountReply(transport_ok) = "not_found" THEN "AccountNotFound"
    ELSE "ok"

\* the owner check left out
OwnerError_Skipped(acct) == "ok"

\* if account.owner != stake_program_id() { bail!(..) }
OwnerError(acct) == IF acct.owner # "stake" THEN "NotStakeOwned" ELSE "ok"

\* bincode::deserialize(&account.data)
DeserializeError(acct) ==
    IF acct.data.tag = "Undecodable" THEN "DeserializeFailed" ELSE "ok"

\* get_account, the owner check and the decoding, as Deactivate and Withdraw
\* do them: the first error, or "ok"
ReadError(transport_ok) ==
    IF GetAccountError(transport_ok) # "ok" THEN GetAccountError(transport_ok)
    ELSE IF OwnerError(chain) # "ok" THEN OwnerError(chain)
    ELSE DeserializeError(chain)

\* ------------------------------------------------- stake.rs: the rules
\* the staker is checked before the deactivation epoch
DeactivateCheckStake_StakerFirst(state, caller) ==
    IF state.staker # caller
    THEN [Err("NotAuthorizedStaker") EXCEPT !.authority = state.staker]
    ELSE IF state.deactivation_epoch # ACTIVE_STAKE_EPOCH_BOUND
    THEN [Err("AlreadyDeactivating") EXCEPT !.epoch = state.deactivation_epoch]
    ELSE Approved

\* the staker is not checked
DeactivateCheckStake_NoStakerCheck(state, caller) ==
    IF state.deactivation_epoch # ACTIVE_STAKE_EPOCH_BOUND
    THEN [Err("AlreadyDeactivating") EXCEPT !.epoch = state.deactivation_epoch]
    ELSE Approved

\* the StakeStateV2::Stake arm of process_deactivate_stake_account
DeactivateCheckStake(state, caller) ==
    IF state.deactivation_epoch # ACTIVE_STAKE_EPOCH_BOUND
    THEN [Err("AlreadyDeactivating") EXCEPT !.epoch = state.deactivation_epoch]
    ELSE IF state.staker # caller
    THEN [Err("NotAuthorizedStaker") EXCEPT !.authority = state.staker]
    ELSE Approved

\* an Initialized account passes
DeactivateCheck_InitializedPasses(state, caller) ==
    IF state.tag = "Stake" THEN DeactivateCheckStake(state, caller)
    ELSE IF state.tag = "Initialized" THEN Approved
    ELSE Err("InvalidStateForDeactivation")

\* the match of process_deactivate_stake_account
DeactivateCheck(state, caller) ==
    IF state.tag = "Stake" THEN DeactivateCheckStake(state, caller)
    ELSE IF state.tag = "Initialized" THEN Err("InitializedNotDelegated")
    ELSE Err("InvalidStateForDeactivation")

\* an active stake is not turned away
WithdrawCheckStake_NoActiveCheck(state, caller) ==
    IF state.withdrawer # caller
    THEN [Err("NotAuthorizedWithdrawer") EXCEPT !.authority = state.withdrawer]
    ELSE Outcome("epoch", "")

\* the StakeStateV2::Stake arm of process_withdraw_stake up to the epoch
\* read: an error, or "epoch" when the epoch has to be read
WithdrawCheckStake(state, caller) ==
    IF state.withdrawer # caller
    THEN [Err("NotAuthorizedWithdrawer") EXCEPT !.authority = state.withdrawer]
    ELSE IF state.deactivation_epoch = ACTIVE_STAKE_EPOCH_BOUND
    THEN Err("StillActive")
    ELSE Outcome("epoch", "")

\* the withdrawer of an Initialized account is not checked
WithdrawCheckInitialized_NoAuth(state, caller) == Approved

\* the epoch is read for an Initialized account too
WithdrawCheckInitialized_ReadsEpoch(state, caller) ==
    IF state.withdrawer # caller
    THEN [Err("NotAuthorizedWithdrawer") EXCEPT !.authority = state.withdrawer]
    ELSE Outcome("epoch", "")

\* the StakeStateV2::Initialized arm of process_withdraw_stake
WithdrawCheckInitialized(state, caller) ==
    IF state.withdrawer # caller
    THEN [Err("NotAuthorizedWithdrawer") EXCEPT !.authority = state.withdrawer]
    ELSE Approved

\* an Uninitialized account falls through the match
WithdrawCheck_UninitializedPasses(state, caller) ==
    IF state.tag = "Stake" THEN WithdrawCheckStake(state, caller)
    ELSE IF state.tag = "Initialized" THEN WithdrawCheckInitialized(state, caller)
    ELSE IF state.tag = "Uninitialized" THEN Approved
    ELSE Err("RewardsPool")

\* the match of process_withdraw_stake
WithdrawCheck(state, caller) ==
    IF state.tag = "Stake" THEN WithdrawCheckStake(state, caller)
    ELSE IF state.tag = "Initialized" THEN WithdrawCheckInitialized(state, caller)
    ELSE IF state.tag = "Uninitialized" THEN Err("Uninitialized")
    ELSE Err("RewardsPool")

\* < in place of <=
CoolingCheck_Strict(state, epoch) ==
    IF epoch < state.deactivation_epoch
    THEN [Err("CoolingDown") EXCEPT !.current = epoch,
                                    !.epoch = state.deactivation_epoch,
                                    !.remaining = state.deactivation_epoch - epoch]
    ELSE Approved

\* the epoch comparison is left out
CoolingCheck_Never(state, epoch) == Approved

\* if epoch_info.epoch <= stake.delegation.deactivation_epoch { bail!(..) }
CoolingCheck(state, epoch) ==
    IF epoch <= state.deactivation_epoch
    THEN [Err("CoolingDown") EXCEPT !.current = epoch,
                                    !.epoch = state.deactivation_epoch,
                                    !.remaining = state.deactivation_epoch - epoch]
    ELSE Approved

\* >= in place of >
BalanceCheck_Geq(amount_sol, acct) ==
    IF sol_to_lamports(amount_sol) >= acct.lamports
    THEN [Err("InsufficientBalance") EXCEPT !.have = lamports_to_sol(acct.lamports),
                                            !.want = amount_sol]
    ELSE Approved

\* if amount_lamports > account.lamports { bail!(..) }
BalanceCheck(amount_sol, acct) ==
    IF sol_to_lamports(amount_sol) > acct.lamports
    THEN [Err("InsufficientBalance") EXCEPT !.have = lamports_to_sol(acct.lamports),
                                            !.want = amount_sol]
    ELSE Approved

\* the two keys swapped
deactivate_stake_swapped(stake_pubkey, authorized_pubkey) ==
    [kind |-> "deactivate", stake |-> authorized_pubkey, authority |-> stake_pubkey,
     recipient |-> "none", lamports |-> 0, custodian |-> "none"]

\* deactivate_stake(stake_pubkey, authorized_pubkey)
deactivate_stake(stake_pubkey, authorized_pubkey) ==
    [kind |-> "deactivate", stake |-> stake_pubkey, authority |-> authorized_pubkey,
     recipient |-> "none", lamports |-> 0, custodian |-> "none"]

\* withdraw(stake_pubkey, withdrawer_pubkey, recipient, amount_lamports, None)
withdraw(stake_pubkey, withdrawer_pubkey, recipient, lamports) ==
    [kind |-> "withdraw", stake |-> stake_pubkey, authority |-> withdrawer_pubkey,
     recipient |-> recipient, lamports |-> lamports, custodian |-> "none"]

Fail(r) ==
    /\ result' = r
    /\ pc' = "done"


\* build_and_send_tx is entered with one instruction: its first step is
\* get_latest_blockhash
Submit(instruction) ==
    /\ instructions' = <<instruction>>
    /\ pc' = "tx_get_latest_blockhash"
    /\ UNCHANGED result

\* ------------------------------- process_deactivate_stake_account, l.119-155
DeactivateGetAccount ==
    /\ pc = "deactivate_get_account"
    /\ \E transport_ok \in BOOLEAN :
         /\ rpc_log' = Append(rpc_log, Rpc("get_account", GetAccountReply(transport_ok)))
         /\ LET e == ReadError(transport_ok)
                verdict == DeactivateCheck(chain.data, ctx_pubkey)
            IN  /\ account' = IF GetAccountError(transport_ok) = "ok" THEN chain ELSE account
                /\ stake_state' = IF e = "ok" THEN chain.data ELSE stake_state
                /\ IF e # "ok" THEN Fail(Err(e)) /\ UNCHANGED instructions
                   ELSE IF verdict.status = "err" THEN Fail(verdict) /\ UNCHANGED instructions
                   ELSE Submit(deactivate_stake(cmd.stake_pubkey, ctx_pubkey))
    /\ UNCHANGED <<ctx_pubkey, chain, node_epoch, cmd, epoch_read, tx, submitted, shown, signatures, conv>>

\* the end of process_withdraw_stake, l.229-247: the balance check, the
\* instruction and the call of build_and_send_tx
WithdrawFinish(acct) ==
    LET verdict == BalanceCheck(cmd.amount, acct)
    IN  IF verdict.status = "err" THEN Fail(verdict) /\ UNCHANGED instructions
        ELSE Submit(withdraw(cmd.stake_pubkey, ctx_pubkey, cmd.recipient,
                             sol_to_lamports(cmd.amount)))

\* ------------------------------------------ process_withdraw_stake, l.174-200
WithdrawGetAccount ==
    /\ pc = "withdraw_get_account"
    /\ \E transport_ok \in BOOLEAN :
         /\ rpc_log' = Append(rpc_log, Rpc("get_account", GetAccountReply(transport_ok)))
         /\ LET e == ReadError(transport_ok)
                verdict == WithdrawCheck(chain.data, ctx_pubkey)
            IN  /\ account' = IF GetAccountError(transport_ok) = "ok" THEN chain ELSE account
                /\ stake_state' = IF e = "ok" THEN chain.data ELSE stake_state
                /\ IF e # "ok" THEN Fail(Err(e)) /\ UNCHANGED instructions
                   ELSE IF verdict.status = "err" THEN Fail(verdict) /\ UNCHANGED instructions
                   ELSE IF verdict.status = "epoch"
                   THEN /\ pc' = "withdraw_get_epoch_info"
                        /\ UNCHANGED <<result, instructions>>
                   ELSE WithdrawFinish(chain)
    /\ UNCHANGED <<ctx_pubkey, chain, node_epoch, cmd, epoch_read, tx, submitted, shown, signatures, conv>>

\* ------------------------------------------ process_withdraw_stake, l.201-247
WithdrawGetEpochInfo ==
    /\ pc = "withdraw_get_epoch_info"
    /\ \E transport_ok \in BOOLEAN :
         IF ~transport_ok
         THEN /\ rpc_log' = Append(rpc_log, Rpc("get_epoch_info", "transport_error"))
              /\ Fail(Err("NetworkError"))
              /\ UNCHANGED <<instructions, epoch_read>>
         ELSE LET verdict == CoolingCheck(stake_state, node_epoch)
              IN  /\ rpc_log' = Append(rpc_log, Rpc("get_epoch_info", "ok"))
                  /\ epoch_read' = node_epoch
                  /\ IF verdict.status = "err"
                     THEN Fail(verdict) /\ UNCHANGED instructions
                     ELSE WithdrawFinish(account)
    /\ UNCHANGED <<ctx_pubkey, chain, node_epoch, cmd, account, stake_state, tx,
                   submitted, shown, signatures, conv>>

\* --------------------------------------------- helpers.rs: build_and_send_tx
\* the keys that have to sign Message::new(instruction, Some(payer))
RequiredSigners(instrs, payer) ==
    {payer} \cup {instrs[i].authority : i \in 1..Len(instrs)}

\* tx.try_sign(signers, recent_blockhash): "ok" or the signing error
TrySign(instrs, payer, signers) ==
    IF ~(signers \subseteq RequiredSigners(instrs, payer)) THEN "KeypairPubkeyMismatch"
    ELSE IF ~(RequiredSigners(instrs, payer) \subseteq signers) THEN "NotEnoughSigners"
    ELSE "ok"

\* build_and_send_tx, l.162-165; the signers are [ctx.keypair()]
TxGetLatestBlockhash ==
    /\ pc = "tx_get_latest_blockhash"
    /\ \E transport_ok \in BOOLEAN :
         IF ~transport_ok
         THEN /\ rpc_log' = Append(rpc_log, Rpc("get_latest_blockhash", "transport_error"))
              /\ Fail(Err("NetworkError"))
              /\ UNCHANGED tx
         ELSE LET e == TrySign(instructions, ctx_pubkey, {ctx_pubkey})
              IN  /\ rpc_log' = Append(rpc_log, Rpc("get_latest_blockhash", "ok"))
                  /\ IF e # "ok" THEN Fail(Err(e)) /\ UNCHANGED tx
                     ELSE /\ tx' = [instructions |-> instructions, payer |-> ctx_pubkey,
                                    signers |-> {ctx_pubkey}, blockhash |-> "recent"]
                          /\ pc' = "tx_send_and_confirm"
                          /\ UNCHANGED result
    /\ UNCHANGED <<ctx_pubkey, chain, node_epoch, cmd, account, stake_state, epoch_read,
                   instructions, submitted, shown, signatures, conv>>

\* ------------------------------------------------------- the remote node
\* the stake program on one instruction, against the node's own state
NodeAccepts(ins, signers) ==
    /\ chain.exists /\ chain.owner = "stake"
    /\ ins.authority \in signers
    /\ IF ins.kind = "deactivate"
       THEN /\ chain.data.tag = "Stake"
            /\ chain.data.staker = ins.authority
            /\ chain.data.deactivation_epoch = ACTIVE_STAKE_EPOCH_BOUND
       ELSE /\ chain.data.tag \in {"Initialized", "Stake"}
            /\ chain.data.withdrawer = ins.authority
            /\ chain.data.tag = "Stake" =>
                 /\ chain.data.deactivation_epoch # ACTIVE_STAKE_EPOCH_BOUND
                 /\ chain.data.deactivation_epoch < node_epoch
            /\ ins.lamports <= chain.lamports

NodeApply(ins) ==
    IF ins.kind = "deactivate"
    THEN [chain EXCEPT !.data.deactivation_epoch = node_epoch]
    ELSE [chain EXCEPT !.lamports = chain.lamports - ins.lamports]

\* the signature of a transaction: the fee payer's over its message
SignatureOf(t) == <<t.payer, t.instructions[1].kind, t.blockhash>>

\* what the node answers to send_and_confirm_transaction: it executes the
\* transaction and confirms it ("confirmed") or rejects it ("rejected"), or
\* the call fails in transport before the transaction reached the node
\* ("unsent") or after the node executed it ("lost")
SendReplies(accepts) ==
    {"unsent", "lost", "rejected"} \cup (IF accepts THEN {"confirmed"} ELSE {})

\* every reply is taken for a confirmation
SendOutcome_AlwaysOk(reply, t) ==
    [Outcome("ok", "") EXCEPT !.signature = SignatureOf(t)]

\* send_and_confirm_transaction(&tx).await? and Ok(signature), then the
\* success report of the command (stake.rs l.157-165, l.249-258)
SendOutcome(reply, t) ==
    IF reply = "confirmed"
    THEN [Outcome("ok", "") EXCEPT !.signature = SignatureOf(t)]
    ELSE IF reply = "rejected" THEN Err("SubmissionRejected")
    ELSE Err("NetworkError")

\* a rejected transaction is sent again
AfterSend_Retry(reply) ==
    IF reply = "rejected" THEN "tx_send_and_confirm" ELSE "done"

\* build_and_send_tx returns after the one call, whatever the reply
AfterSend(reply) == "done"

\* build_and_send_tx, l.167-169
TxSendAndConfirm ==
    /\ pc = "tx_send_and_confirm"
    /\ LET ins == tx.instructions[1]
           accepts == NodeAccepts(ins, tx.signers)
       IN  \E reply \in SendReplies(accepts) :
             /\ rpc_log' = Append(rpc_log, Rpc("send_and_confirm_transaction", reply))
             /\ submitted' = IF reply = "unsent" THEN submitted ELSE Append(submitted, tx)
             /\ chain' = IF reply \in {"lost", "confirmed"} /\ accepts
                         THEN NodeApply(ins) ELSE chain
             /\ result' = SendOutcome(reply, tx)
             /\ pc' = AfterSend(reply)
    /\ UNCHANGED <<ctx_pubkey, node_epoch, cmd, account, stake_state, epoch_read,
                   instructions, tx, shown, signatures, conv>>

\* ------------------------------------------- process_stake_history, l.262-266
HistoryGetAccount ==
    /\ pc = "history_get_account"
    /\ \E transport_ok \in BOOLEAN :
         /\ rpc_log' = Append(rpc_log, Rpc("get_account", GetAccountReply(transport_ok)))
         /\ LET e == IF GetAccountError(transport_ok) # "ok"
                     THEN GetAccountError(transport_ok) ELSE OwnerError(chain)
            IN  /\ account' = IF GetAccountError(transport_ok) = "ok" THEN chain ELSE account
                /\ IF e # "ok" THEN Fail(Err(e))
                   ELSE pc' = "history_get_signatures" /\ UNCHANGED result
    /\ UNCHANGED <<ctx_pubkey, chain, node_epoch, cmd, stake_state, epoch_read,
                   instructions, tx, submitted, shown, signatures, conv>>

\* the node's signatures for the address, newest first
NodeSignatures(n) == [i \in 1..n |-> [slot |-> n + 1 - i, succeeded |-> i % 2 = 1]]

\* the last n entries in place of the first n
Take_Last(s, n) == SubSeq(s, IF Len(s) < n THEN 1 ELSE Len(s) - n + 1, Len(s))

\* signatures.iter().take(20)
Take(s, n) == SubSeq(s, 1, IF Len(s) < n THEN Len(s) ELSE n)

\* ------------------------------------------- process_stake_history, l.268-331
HistoryGetSignatures ==
    /\ pc = "history_get_signatures"
    /\ pc' = "done"
    /\ \E transport_ok \in BOOLEAN :
         IF ~transport_ok
         THEN /\ rpc_log' = Append(rpc_log, Rpc("get_signatures_for_address", "transport_error"))
              /\ result' = Err("NetworkError")
              /\ UNCHANGED <<shown, signatures>>
         ELSE \E n \in {0, 1, TAKE_LIMIT, MaxSigs} :
                /\ rpc_log' = Append(rpc_log, Rpc("get_signatures_for_address", "ok"))
                /\ signatures' = NodeSignatures(n)
                /\ shown' = Take(signatures', TAKE_LIMIT)
                /\ result' = Outcome("ok", "")
    /\ UNCHANGED <<ctx_pubkey, chain, node_epoch, cmd, account, stake_state, epoch_read,
                   instructions, tx, submitted, conv>>

\* ------------------------------------------- the node, between two steps
InFlight == pc \notin {"prompt", "done"}

\* the node enters the next epoch
NodeEpochAdvance ==
    /\ InFlight
    /\ node_epoch < MaxEpoch
    /\ node_epoch' = node_epoch + 1
    /\ UNCHANGED <<ctx_pubkey, chain, pc, cmd, account, stake_state, epoch_read,
                   instructions, tx, submitted, rpc_log, shown, signatures, conv, result>>

\* another signer deactivates the same account
OtherDeactivate ==
    /\ InFlight
    /\ chain.exists /\ chain.owner = "stake" /\ chain.data.tag = "Stake"
    /\ chain.data.deactivation_epoch = ACTIVE_STAKE_EPOCH_BOUND
    /\ chain' = [chain EXCEPT !.data.deactivation_epoch = node_epoch]
    /\ UNCHANGED <<ctx_pubkey, node_epoch, pc, cmd, account, stake_state, epoch_read,
                   instructions, tx, submitted, rpc_log, shown, signatures, conv, result>>

Next ==
    \/ PromptDeactivate
    \/ PromptWithdraw
    \/ PromptHistory
    \/ DeactivateGetAccount
    \/ WithdrawGetAccount
    \/ WithdrawGetEpochInfo
    \/ TxGetLatestBlockhash
    \/ TxSendAndConfirm
    \/ HistoryGetAccount
    \/ HistoryGetSignatures
    \/ NodeEpochAdvance
    \/ OtherDeactivate

Spec == Init /\ [][Next]_vars
\* ======================================================== the properties
Calls == {rpc_log[i].call : i \in 1..Len(rpc_log)}
CallCount(call) == Cardinality({i \in 1..Len(rpc_log) : rpc_log[i].call = call})

\* no transaction was built, signed or sent
NothingSubmitted ==
    /\ submitted = <<>>
    /\ tx = NoTx
    /\ "get_latest_blockhash" \notin Calls
    /\ "send_and_confirm_transaction" \notin Calls

\* the command was turned away with r before any instruction was built
DeniedWith(r) ==
    /\ pc = "done"
    /\ result = r
    /\ instructions = <<>>
    /\ NothingSubmitted

Decoded(kind, tag) == cmd.kind = kind /\ stake_state.tag = tag

\* C1: Deactivate on a Delegated account whose deactivation_epoch is not the
\* active sentinel is denied with AlreadyDeactivating, reporting that epoch,
\* whoever the caller is, and nothing is submitted.
C1_Case ==
    /\ Decoded("Deactivate", "Stake")
    /\ stake_state.deactivation_epoch # ACTIVE_STAKE_EPOCH_BOUND
C1_AlreadyDeactivating ==
    C1_Case =>
      DeniedWith([Err("AlreadyDeactivating") EXCEPT
                    !.epoch = stake_state.deactivation_epoch])
C1_Witness ==
    /\ C1_Case
    /\ stake_state.staker # ctx_pubkey
    /\ result.reason = "AlreadyDeactivating"

\* C2: Deactivate on a Delegated account that is still active, by a caller who
\* is not its authorized staker, is denied with NotAuthorized, reporting the
\* authorized staker, and nothing is submitted.
C2_Case ==
    /\ Decoded("Deactivate", "Stake")
    /\ stake_state.deactivation_epoch = ACTIVE_STAKE_EPOCH_BOUND
    /\ stake_state.staker # ctx_pubkey
C2_NotAuthorizedStaker ==
    C2_Case =>
      DeniedWith([Err("NotAuthorizedStaker") EXCEPT !.authority = stake_state.staker])
C2_Witness == C2_Case /\ pc = "done" /\ result.authority = stake_state.staker

\* C3 as stated: Withdraw on a Delegated account with current_epoch <=
\* deactivation_epoch is denied with CoolingDown, and epochs_remaining is
\* deactivation_epoch - current_epoch.
C3_Original ==
    (/\ Decoded("Withdraw", "Stake")
     /\ pc = "done"
     /\ node_epoch <= stake_state.deactivation_epoch)
    => /\ result.reason = "CoolingDown"
       /\ result.remaining = stake_state.deactivation_epoch - node_epoch

\* C3 amended: Withdraw by the authorized withdrawer on a Delegated account
\* that is deactivating (deactivation_epoch is not the sentinel), when the
\* epoch read from the node is <= deactivation_epoch, is denied with
\* CoolingDown, and epochs_remaining is deactivation_epoch - the epoch read.
C3_Case ==
    /\ Decoded("Withdraw", "Stake")
    /\ stake_state.withdrawer = ctx_pubkey
    /\ stake_state.deactivation_epoch # ACTIVE_STAKE_EPOCH_BOUND
    /\ epoch_read >= 0
    /\ epoch_read <= stake_state.deactivation_epoch
C3_CoolingDown ==
    C3_Case =>
      DeniedWith([Err("CoolingDown") EXCEPT
                    !.current = epoch_read,
                    !.epoch = stake_state.deactivation_epoch,
                    !.remaining = stake_state.deactivation_epoch - epoch_read])
C3_Witness == C3_Case /\ result.reason = "CoolingDown" /\ result.remaining = 0

\* C4: when the authorization and epoch checks of Withdraw pass, a requested
\* atomic amount above the balance read is denied with InsufficientBalance,
\* reporting the available and the requested amount, and nothing is
\* submitted; an amount within the balance is not denied for this reason.
C4_ChecksPass ==
    /\ cmd.kind = "Withdraw"
    /\ stake_state.withdrawer = ctx_pubkey
    /\ \/ stake_state.tag = "Initialized"
       \/ /\ stake_state.tag = "Stake"
          /\ stake_state.deactivation_epoch # ACTIVE_STAKE_EPOCH_BOUND
          /\ epoch_read > stake_state.deactivation_epoch
C4_InsufficientBalance ==
    C4_ChecksPass =>
      IF sol_to_lamports(cmd.amount) > account.lamports
      THEN DeniedWith([Err("InsufficientBalance") EXCEPT
                         !.have = lamports_to_sol(account.lamports),
                         !.want = cmd.amount])
      ELSE /\ result.reason # "InsufficientBalance"
           /\ Len(instructions) = 1
           /\ instructions[1].kind = "withdraw"
           /\ instructions[1].lamports = sol_to_lamports(cmd.amount)
C4_Witness ==
    /\ C4_ChecksPass
    /\ stake_state.tag = "Stake"
    /\ sol_to_lamports(cmd.amount) > account.lamports
    /\ account.lamports > 0
    /\ result.reason = "InsufficientBalance"

\* C5: Withdraw by a caller who is not the authorized withdrawer is denied as
\* not authorized, for an Initialized and for a Delegated account, whatever
\* the epoch, the deactivation epoch and the amount, and nothing is submitted.
C5_Case ==
    /\ cmd.kind = "Withdraw"
    /\ stake_state.tag \in {"Initialized", "Stake"}
    /\ stake_state.withdrawer # ctx_pubkey
C5_NotAuthorizedWithdrawer ==
    C5_Case =>
      /\ DeniedWith([Err("NotAuthorizedWithdrawer") EXCEPT
                       !.authority = stake_state.withdrawer])
      /\ epoch_read = -1
C5_Witness ==
    /\ C5_Case
    /\ stake_state.tag = "Initialized"
    /\ sol_to_lamports(cmd.amount) <= account.lamports
    /\ result.reason = "NotAuthorizedWithdrawer"

\* C6: Withdraw by the authorized withdrawer on a Delegated account that is
\* still active is denied with StillActive, for every epoch and amount; the
\* epoch is not read and nothing is submitted.
C6_Case ==
    /\ Decoded("Withdraw", "Stake")
    /\ stake_state.withdrawer = ctx_pubkey
    /\ stake_state.deactivation_epoch = ACTIVE_STAKE_EPOCH_BOUND
C6_StillActive ==
    C6_Case => DeniedWith(Err("StillActive")) /\ "get_epoch_info" \notin Calls
C6_Witness ==
    /\ C6_Case
    /\ sol_to_lamports(cmd.amount) <= account.lamports
    /\ result.reason = "StillActive"

\* C7: Withdraw on an Uninitialized or RewardsPool account is denied for every
\* caller, epoch and amount, before any instruction is built or submitted.
C7_Case ==
    /\ cmd.kind = "Withdraw"
    /\ stake_state.tag \in {"Uninitialized", "RewardsPool"}
C7_UninitializedOrRewardsPool ==
    C7_Case =>
      /\ DeniedWith(Err(stake_state.tag))
      /\ Len(rpc_log) = 1
C7_Witness ==
    /\ C7_Case
    /\ stake_state.tag = "Uninitialized"
    /\ sol_to_lamports(cmd.amount) <= account.lamports
    /\ pc = "done"

\* C8: Deactivate on an Initialized, Uninitialized or RewardsPool account is
\* denied with a wrong-state reason for every caller; nothing is submitted.
C8_Case ==
    /\ cmd.kind = "Deactivate"
    /\ stake_state.tag \in {"Initialized", "Uninitialized", "RewardsPool"}
C8_WrongState ==
    C8_Case =>
      DeniedWith(Err(IF stake_state.tag = "Initialized"
                     THEN "InitializedNotDelegated"
                     ELSE "InvalidStateForDeactivation"))
C8_Witness ==
    /\ C8_Case
    /\ stake_state.tag = "Initialized"
    /\ stake_state.staker = ctx_pubkey
    /\ pc = "done"

\* C9: Deactivate on a Delegated, still active account by its authorized staker
\* is approved: exactly one instruction, deactivate of the target with the
\* caller as authority, goes to the builder; the builder fetches the block
\* reference, signs and submits at most once, in this order; the command fails
\* only for a transport error or a rejection by the node; and when the node
\* confirms, the command ends in success with the signature of the transaction.
C9_Case ==
    /\ Decoded("Deactivate", "Stake")
    /\ stake_state.deactivation_epoch = ACTIVE_STAKE_EPOCH_BOUND
    /\ stake_state.staker = ctx_pubkey
C9_Confirmed ==
    /\ rpc_log # <<>>
    /\ rpc_log[Len(rpc_log)] = Rpc("send_and_confirm_transaction", "confirmed")
C9_ApprovedDeactivate ==
    C9_Case =>
      /\ instructions =
           <<[kind |-> "deactivate", stake |-> StakeAddress, authority |-> ctx_pubkey,
              recipient |-> "none", lamports |-> 0, custodian |-> "none"]>>
      /\ CallCount("get_account") = 1
      /\ CallCount("get_latest_blockhash") <= 1
      /\ CallCount("send_and_confirm_transaction") <= 1
      /\ Len(submitted) <= 1
      /\ result.status = "err" => result.reason \in {"NetworkError", "SubmissionRejected"}
      /\ submitted # <<>> =>
           /\ submitted = <<tx>>
           /\ tx = [instructions |-> instructions, payer |-> ctx_pubkey,
                    signers |-> {ctx_pubkey}, blockhash |-> "recent"]
           /\ rpc_log[2] = Rpc("get_latest_blockhash", "ok")
           /\ rpc_log[3].call = "send_and_confirm_transaction"
      /\ C9_Confirmed <=> (pc = "done" /\ result.status = "ok")
      /\ result.status = "ok" =>
           result = [Outcome("ok", "") EXCEPT !.signature = SignatureOf(tx)]
C9_Witness == C9_Case /\ C9_Confirmed /\ result.status = "ok" /\ Len(submitted) = 1

\* the error the read of the account ends in, from what the node answered and
\* the account it returned; "ok" if none or if nothing was read yet
ReaderErrorSeen(decodes) ==
    IF rpc_log = <<>> THEN "ok"
    ELSE IF rpc_log[1].reply = "transport_error" THEN "NetworkError"
    ELSE IF rpc_log[1].reply = "not_found" THEN "AccountNotFound"
    ELSE IF account.owner # "stake" THEN "NotStakeOwned"
    ELSE IF decodes /\ account.data.tag = "Undecodable" THEN "DeserializeFailed"
    ELSE "ok"

\* the command failed with reader error e and went no further
StoppedAtRead(e) ==
    /\ DeniedWith(Err(e))
    /\ Len(rpc_log) = 1
    /\ stake_state = NoState
    /\ epoch_read = -1
    /\ shown = <<>>

\* C10 as stated: if the account read fails (transport, no account, wrong
\* owner, undecodable payload), Deactivate, Withdraw and History fail with that
\* reader error, the rules are not evaluated and nothing more is fetched.
C10_Original ==
    ReaderErrorSeen(TRUE) # "ok" => StoppedAtRead(ReaderErrorSeen(TRUE))

\* C10 amended: Deactivate and Withdraw do so for all four causes; History
\* does so for a transport failure, a missing account and a wrong owner.
\* History does not decode the payload, so an undecodable payload is no error
\* to it.
C10_ReadFailureStops ==
    ReaderErrorSeen(cmd.kind # "History") # "ok"
      => StoppedAtRead(ReaderErrorSeen(cmd.kind # "History"))
C10_Witness ==
    /\ cmd.kind = "Withdraw"
    /\ rpc_log = <<Rpc("get_account", "not_found")>>
    /\ result.reason = "AccountNotFound"
    /\ sol_to_lamports(cmd.amount) > 0

LastRpc == rpc_log[Len(rpc_log)]
StakeCommand == cmd.kind \in {"Deactivate", "Withdraw"}

\* the instruction the command builds, from the command and the caller alone
BuiltInstruction ==
    IF cmd.kind = "Deactivate"
    THEN [kind |-> "deactivate", stake |-> cmd.stake_pubkey, authority |-> ctx_pubkey,
          recipient |-> "none", lamports |-> 0, custodian |-> "none"]
    ELSE [kind |-> "withdraw", stake |-> cmd.stake_pubkey, authority |-> ctx_pubkey,
          recipient |-> cmd.recipient, lamports |-> sol_to_lamports(cmd.amount),
          custodian |-> "none"]

\* the account changed on the node after the client read it
Stale == account # chain

\* C11: nothing locks the account between the read and the submission.  When
\* the account changed on the node after the read, the client does not read it
\* again: it signs and sends the transaction built from what it read; the reply
\* of the node decides: success is reported only when the node confirmed, a
\* rejection is reported as a failure.
C11_NotTransactional ==
    /\ [](CallCount("get_account") <= 1)
    /\ []((StakeCommand /\ result.status = "ok") =>
            LastRpc = Rpc("send_and_confirm_transaction", "confirmed"))
    /\ [][(/\ pc = "tx_get_latest_blockhash"
           /\ Stale
           /\ rpc_log' = Append(rpc_log, Rpc("get_latest_blockhash", "ok")))
          => /\ pc' = "tx_send_and_confirm"
             /\ tx'.instructions = <<BuiltInstruction>>]_vars
    /\ [][(pc = "tx_send_and_confirm" /\ Stale /\ rpc_log' # rpc_log)
          => /\ tx' = tx
             /\ tx.instructions = <<BuiltInstruction>>
             /\ Len(rpc_log') = Len(rpc_log) + 1
             /\ rpc_log'[Len(rpc_log')].call = "send_and_confirm_transaction"
             /\ CallCount("get_account")' = 1
             /\ pc' = "done"
             /\ rpc_log'[Len(rpc_log')].reply # "unsent" => submitted' = <<tx>>
             /\ result'.status = "ok" <=> rpc_log'[Len(rpc_log')].reply = "confirmed"
             /\ rpc_log'[Len(rpc_log')].reply = "rejected"
                  => result' = Err("SubmissionRejected")
             /\ result'.status \in {"ok", "err"}]_vars
C11_Witness ==
    /\ pc = "done"
    /\ cmd.kind = "Deactivate"
    /\ stake_state.deactivation_epoch = ACTIVE_STAKE_EPOCH_BOUND
    /\ chain.data.deactivation_epoch # ACTIVE_STAKE_EPOCH_BOUND
    /\ submitted = <<tx>>
    /\ LastRpc = Rpc("send_and_confirm_transaction", "rejected")
    /\ result = Err("SubmissionRejected")

\* C12: the submitter never retries.  In one Deactivate or Withdraw the block
\* reference is fetched at most once and the transaction is sent at most once;
\* a transport error of either call or a rejection by the node ends the command
\* in failure with that reason.
FailedReplies == {"transport_error", "unsent", "lost", "rejected"}
C12_NoRetry ==
    StakeCommand =>
      /\ CallCount("get_latest_blockhash") <= 1
      /\ CallCount("send_and_confirm_transaction") <= 1
      /\ Len(submitted) <= 1
      /\ \A i \in 1..Len(rpc_log) :
           (/\ rpc_log[i].call \in {"get_latest_blockhash", "send_and_confirm_transaction"}
            /\ rpc_log[i].reply \in FailedReplies)
           => /\ i = Len(rpc_log)
              /\ pc = "done"
              /\ result = Err(IF rpc_log[i].reply = "rejected"
                              THEN "SubmissionRejected" ELSE "NetworkError")
C12_Witness ==
    /\ cmd.kind = "Withdraw"
    /\ pc = "done"
    /\ Len(rpc_log) >= 3
    /\ LastRpc = Rpc("send_and_confirm_transaction", "rejected")
    /\ Len(submitted) = 1

\* the calls made before the verdict: those that are not the builder's
IsValidationCall(r) ==
    r.call \notin {"get_latest_blockhash", "send_and_confirm_transaction"}
ValidationCalls == SelectSeq(rpc_log, IsValidationCall)
VerdictReached == pc \in {"tx_get_latest_blockhash", "tx_send_and_confirm", "done"}

\* C13 as stated: validating a Deactivate or Withdraw makes exactly one network
\* call, the fetch of the stake account, before the verdict.
C13_Original ==
    (StakeCommand /\ VerdictReached) =>
      /\ Len(ValidationCalls) = 1
      /\ ValidationCalls[1].call = "get_account"

\* C13 amended: validating a Deactivate makes exactly one network call, the
\* fetch of the stake account.  Validating a Withdraw makes that call first and
\* one more, get_epoch_info, exactly when the account read is Delegated and
\* deactivating and the caller is its authorized withdrawer; no other call is
\* made before the verdict.
C13_NeedsEpoch ==
    /\ Decoded("Withdraw", "Stake")
    /\ stake_state.withdrawer = ctx_pubkey
    /\ stake_state.deactivation_epoch # ACTIVE_STAKE_EPOCH_BOUND
C13_ValidationCalls ==
    (StakeCommand /\ VerdictReached) =>
      /\ Len(ValidationCalls) >= 1
      /\ ValidationCalls[1].call = "get_account"
      /\ IF C13_NeedsEpoch
         THEN Len(ValidationCalls) = 2 /\ ValidationCalls[2].call = "get_epoch_info"
         ELSE Len(ValidationCalls) = 1
C13_Witness ==
    /\ C13_NeedsEpoch
    /\ pc = "tx_get_latest_blockhash"
    /\ Len(rpc_log) = 2
    /\ rpc_log[2] = Rpc("get_epoch_info", "ok")

\* ------------------------------------------- helpers.rs: the conversions
\* the texts typed at an amount prompt: nothing, something that is not a
\* number, or the decimal text of an f64 (str::parse also reads inf and NaN)
AmountTexts == {"empty", "garbage", "number"}

\* SolAmount::from_str: "ok" or the error
SolAmount_from_str(text, sol) ==
    IF text = "empty" THEN "Empty"
    ELSE IF text = "garbage" THEN "Invalid"
    ELSE SolAmountCheck(sol)

\* parse_sol_amount: the error, or the lamports
parse_sol_amount(text, sol) ==
    IF text = "empty" THEN [verdict |-> "ok", lamports |-> 0]
    ELSE IF text = "garbage" THEN [verdict |-> "Invalid", lamports |-> 0]
    ELSE [verdict |-> "ok", lamports |-> sol_to_lamports(sol)]

\* an amount was typed; no command runs
InitConv ==
    /\ ctx_pubkey = "k1"
    /\ chain = NoAccount
    /\ node_epoch = 0
    /\ pc = "prompt"
    /\ cmd = NoCmd
    /\ account = NoAccount
    /\ stake_state = NoState
    /\ epoch_read = -1
    /\ instructions = <<>>
    /\ tx = NoTx
    /\ submitted = <<>>
    /\ rpc_log = <<>>
    /\ shown = <<>>
    /\ result = NoResult
    /\ signatures = <<>>
    /\ \E text \in AmountTexts, sol \in F64 :
         /\ text # "number" => sol = Fin(0)
         /\ conv = [NoConv EXCEPT !.stage = "typed", !.text = text, !.sol = sol]

ConvFromStr ==
    /\ conv.stage = "typed"
    /\ conv' = [conv EXCEPT !.stage = "from_str",
                            !.verdict = SolAmount_from_str(conv.text, conv.sol)]
    /\ UNCHANGED cmdvars

\* SolAmount::to_lamports of an accepted amount
ConvToLamports ==
    /\ conv.stage = "from_str"
    /\ conv.verdict = "ok"
    /\ conv' = [conv EXCEPT !.stage = "to_lamports", !.lamports = sol_to_lamports(conv.sol)]
    /\ UNCHANGED cmdvars

ConvToSol ==
    /\ conv.stage = "to_lamports"
    /\ conv' = [conv EXCEPT !.stage = "to_sol", !.back = lamports_to_sol(conv.lamports)]
    /\ UNCHANGED cmdvars

ConvParseSolAmount ==
    /\ conv.stage = "typed"
    /\ LET r == parse_sol_amount(conv.text, conv.sol)
       IN  conv' = [conv EXCEPT !.stage = "parse_sol_amount",
                                !.verdict = r.verdict, !.lamports = r.lamports]
    /\ UNCHANGED cmdvars

NextConv ==
    \/ ConvFromStr
    \/ ConvToLamports
    \/ ConvToSol
    \/ ConvParseSolAmount

SpecConv == InitConv /\ [][NextConv]_vars

\* the amount typed is strictly positive and finite
PositiveFinite(sol) == sol.c = "fin" /\ sol.k > 0
\* sol * LAMPORTS_PER_SOL, exactly, is at most u64::MAX
FitsU64(sol) == sol.k * LAMPORTS_PER_SOL <= U64_MAX * Pow2(FracBits)
\* sol * LAMPORTS_PER_SOL, exactly, truncated toward zero
Truncated(sol) == (sol.k * LAMPORTS_PER_SOL) \div Pow2(FracBits)

\* C14 for SolAmount: a number is accepted exactly when it is strictly
\* positive, finite and its scaled value fits in 64 bits, and an accepted
\* amount converts to its scaled value truncated toward zero.
C14_FromStr ==
    /\ (conv.stage = "from_str" /\ conv.text = "number")
         => /\ conv.verdict = SolAmount_from_str("number", conv.sol)
            /\ conv.verdict = "ok" <=> (PositiveFinite(conv.sol) /\ FitsU64(conv.sol))
    /\ conv.stage = "to_lamports"
         => /\ PositiveFinite(conv.sol) /\ FitsU64(conv.sol)
            /\ conv.lamports = Truncated(conv.sol)
\* C14 for parse_sol_amount: the same numbers are rejected.
C14_ParseSolAmount ==
    (conv.stage = "parse_sol_amount" /\ conv.text = "number" /\ conv.verdict = "ok")
      => PositiveFinite(conv.sol) /\ FitsU64(conv.sol)
\* C14: converting a display amount to atomic units rejects zero, negative,
\* non-finite and overflowing inputs, the same input always with the same
\* verdict; every accepted input is strictly positive, finite, has a scaled
\* value that fits in 64 bits, and is converted by truncation toward zero.
C14_Original == C14_FromStr /\ C14_ParseSolAmount

\* C15: for a strictly positive finite display amount whose atomic
\* representation does not overflow, lamports_to_sol(sol_to_lamports(display))
\* differs from display by less than one atomic unit and is not greater.
C15_WithinOneUnit ==
    (conv.stage = "to_sol" /\ PositiveFinite(conv.sol) /\ FitsU64(conv.sol))
      => /\ conv.back.c = "fin"
         /\ Abs(conv.sol.k - conv.back.k) * LAMPORTS_PER_SOL < Pow2(FracBits)
C15_NeverGreater ==
    (conv.stage = "to_sol" /\ PositiveFinite(conv.sol) /\ FitsU64(conv.sol))
      => conv.back.c = "fin" /\ conv.back.k <= conv.sol.k
C15_Original == C15_WithinOneUnit /\ C15_NeverGreater

\* C16: History shows at most 20 entries, the first (newest) entries of the
\* node's sequence in the node's order; an empty sequence from the node is a
\* success; History never builds or submits a transaction.
C16_History ==
    cmd.kind = "History" =>
      /\ Len(shown) <= TAKE_LIMIT
      /\ Len(shown) = (IF Len(signatures) < TAKE_LIMIT THEN Len(signatures) ELSE TAKE_LIMIT)
      /\ \A i \in 1..Len(shown) : shown[i] = signatures[i]
      /\ (/\ pc = "done"
          /\ LastRpc = Rpc("get_signatures_for_address", "ok")
          /\ signatures = <<>>)
         => result.status = "ok" /\ shown = <<>>
      /\ instructions = <<>>
      /\ stake_state = NoState
      /\ NothingSubmitted
C16_Witness ==
    /\ cmd.kind = "History"
    /\ pc = "done"
    /\ result.status = "ok"
    /\ Len(signatures) > TAKE_LIMIT
    /\ Len(shown) = TAKE_LIMIT
    /\ shown[1] = signatures[1]

\* C17: a transaction is submitted only after the account was read and
\* validated in the same command, and it is the transaction that was validated.
\* A submitted Deactivate means the state read was Delegated, at the sentinel,
\* with the caller as staker; a submitted Withdraw means the caller is the
\* withdrawer, the state read was Initialized or Delegated with a deactivation
\* epoch strictly below the epoch read, and the amount of the instruction is
\* the amount compared with the balance read and not above it; the authority,
\* the fee payer and the only signer are the caller.
C17_SoundApproval ==
    \A i \in 1..Len(submitted) :
      LET t == submitted[i]
          ins == t.instructions[1]
      IN  /\ StakeCommand
          /\ rpc_log[1] = Rpc("get_account", "ok")
          /\ account.exists /\ account.owner = "stake"
          /\ stake_state = account.data
          /\ t = tx
          /\ t.instructions = <<BuiltInstruction>>
          /\ ins.authority = ctx_pubkey
          /\ t.payer = ctx_pubkey
          /\ t.signers = {ctx_pubkey}
          /\ cmd.kind = "Deactivate" =>
               /\ ins.kind = "deactivate"
               /\ stake_state.tag = "Stake"
               /\ stake_state.deactivation_epoch = ACTIVE_STAKE_EPOCH_BOUND
               /\ stake_state.staker = ctx_pubkey
          /\ cmd.kind = "Withdraw" =>
               /\ ins.kind = "withdraw"
               /\ stake_state.withdrawer = ctx_pubkey
               /\ \/ stake_state.tag = "Initialized"
                  \/ /\ stake_state.tag = "Stake"
                     /\ rpc_log[2] = Rpc("get_epoch_info", "ok")
                     /\ epoch_read >= 0
                     /\ stake_state.deactivation_epoch < epoch_read
               /\ ins.lamports = sol_to_lamports(cmd.amount)
               /\ ins.lamports <= account.lamports
C17_Witness ==
    /\ Len(submitted) = 1
    /\ Decoded("Withdraw", "Stake")
    /\ stake_state.deactivation_epoch < epoch_read
    /\ tx.instructions[1].lamports = account.lamports
    /\ chain # account
    /\ pc = "done"

====
